---- MODULE Spec2Model ----
(***************************************************************************)
(* The in-game console of OpenRCT2 (src/openrct2-ui/interface/             *)
(* InGameConsole.cpp) as a state machine.                                  *)
(*                                                                         *)
(* Strings are sequences of one-character strings; a colour tag such as    *)
(* "{WINDOW_COLOUR_2}" is kept as one element.  The fixed-size C buffers   *)
(* (_consoleCurrentLine, the rows of _consoleHistory) are represented by   *)
(* their C-string content, the bytes before the first NUL.                 *)
(*                                                                         *)
(* Every method of the class is an operator from a machine record m (the   *)
(* members of the object, the text-input session it points to, and the     *)
(* calls the method made to its collaborators) to the record after the     *)
(* call; an action applies one public method to the current state.         *)
(***************************************************************************)
EXTENDS Integers, Sequences, FiniteSets

VARIABLES
    isOpen,                   \* _isOpen
    consoleBottomRightY,      \* _consoleBottomRight.y (_consoleTopLeft.y is always 0)
    lineHeight,               \* what InGameConsoleGetLineHeight() returns
    consoleLines,             \* _consoleLines
    consoleCurrentLine,       \* _consoleCurrentLine
    consoleCaretTicks,        \* _consoleCaretTicks
    consoleScrollPos,         \* _consoleScrollPos
    consoleTextInputSession,  \* _consoleTextInputSession is not nullptr
    consoleHistory,           \* _consoleHistory
    consoleHistoryIndex,      \* _consoleHistoryIndex
    consoleHistoryCount,      \* _consoleHistoryCount
    selectionStart,           \* _selectionStart
    caretScreenPosX,          \* _caretScreenPosX
    session,                  \* the TextInputSession of the text-input capture
    captureActive,            \* text-input capture has been started and not stopped
    halted                    \* the process was ended by undefined behaviour

vars == << isOpen, consoleBottomRightY, lineHeight, consoleLines, consoleCurrentLine,
           consoleCaretTicks, consoleScrollPos, consoleTextInputSession, consoleHistory,
           consoleHistoryIndex, consoleHistoryCount, selectionStart, caretScreenPosX,
           session, captureActive, halted >>

----------------------------------------------------------------------------
(* Bounds of the model and constants of the program *)

\* CONSOLE_MAX_LINES, the cap of the scrollback (scaled down)
CONSOLE_MAX_LINES == 3
\* CONSOLE_HISTORY_SIZE, the rows of _consoleHistory (scaled down)
CONSOLE_HISTORY_SIZE == 2
\* the longest text written in one WriteLine call of SpecWrite
MaxWriteLen == 4
\* _consoleBottomRight.y as Update sets it
ConsoleHeightPx == 322
\* the length of the caret's blink cycle in Update
CaretCycle == 30

Chars == {"a", "b"}
NL == "\n"
Prompt == << ">", " " >>
ColourCodepointWindow2 == << "{WINDOW_COLOUR_2}" >>
FormatTokens == {"ColourWindow2", "ColourRed"}

Min(a, b) == IF a < b THEN a ELSE b
Max(a, b) == IF a > b THEN a ELSE b

\* int32_t division of C++: the quotient is truncated toward zero
TruncDiv(a, b) == IF a >= 0 THEN a \div b ELSE -((-a) \div b)

\* std::clamp
Clamp(v, lo, hi) == IF v < lo THEN lo ELSE IF hi < v THEN hi ELSE v

----------------------------------------------------------------------------
(* The machine record *)

Cur ==
    [ isOpen |-> isOpen,
      consoleBottomRightY |-> consoleBottomRightY,
      consoleLines |-> consoleLines,
      consoleCurrentLine |-> consoleCurrentLine,
      consoleCaretTicks |-> consoleCaretTicks,
      consoleScrollPos |-> consoleScrollPos,
      consoleTextInputSession |-> consoleTextInputSession,
      consoleHistory |-> consoleHistory,
      consoleHistoryIndex |-> consoleHistoryIndex,
      consoleHistoryCount |-> consoleHistoryCount,
      selectionStart |-> selectionStart,
      caretScreenPosX |-> caretScreenPosX,
      session |-> session,
      captureActive |-> captureActive,
      halted |-> halted,
      execCalls |-> << >>,
      captureCalls |-> << >> ]

Commit(m) ==
    /\ isOpen' = m.isOpen
    /\ consoleBottomRightY' = m.consoleBottomRightY
    /\ consoleLines' = m.consoleLines
    /\ consoleCurrentLine' = m.consoleCurrentLine
    /\ consoleCaretTicks' = m.consoleCaretTicks
    /\ consoleScrollPos' = m.consoleScrollPos
    /\ consoleTextInputSession' = m.consoleTextInputSession
    /\ consoleHistory' = m.consoleHistory
    /\ consoleHistoryIndex' = m.consoleHistoryIndex
    /\ consoleHistoryCount' = m.consoleHistoryCount
    /\ selectionStart' = m.selectionStart
    /\ caretScreenPosX' = m.caretScreenPosX
    /\ session' = m.session
    /\ captureActive' = m.captureActive
    /\ halted' = m.halted
    /\ lineHeight' = lineHeight

----------------------------------------------------------------------------
(* Collaborators outside the class *)

\* GfxGetStringWidthNoFormatting: the width of a string, in character cells
GfxGetStringWidthNoFormatting(str) == Len(str)

\* ContextStartTextInput(buffer, size): the one capture session is (re)armed on the buffer
ContextStartTextInput(m) ==
    [m EXCEPT !.captureActive = TRUE,
              !.session = [Size |-> Len(m.consoleCurrentLine),
                           Length |-> Len(m.consoleCurrentLine),
                           SelectionStart |-> Len(m.consoleCurrentLine)],
              !.captureCalls = Append(@, "start")]

\* ContextStopTextInput()
ContextStopTextInput(m) ==
    [m EXCEPT !.captureActive = FALSE,
              !.captureCalls = Append(@, "stop")]

----------------------------------------------------------------------------
(* Viewport *)

GetNumVisibleLinesOp(consoleHeight, lh) ==
    IF consoleHeight = 0
    THEN 0
    ELSE TruncDiv(consoleHeight - 2 * lh - 4, lh)

GetNumVisibleLines(m) == GetNumVisibleLinesOp(m.consoleBottomRightY - 0, lineHeight)

ScrollToEnd(m) ==
    LET maxLines == GetNumVisibleLines(m)
    IN  IF maxLines = 0
        THEN [m EXCEPT !.consoleScrollPos = 0]
        ELSE [m EXCEPT !.consoleScrollPos = Max(0, Len(m.consoleLines) - maxLines)]

Scroll(m, linesToScroll) ==
    LET maxVisibleLines == GetNumVisibleLines(m)
        numLines == Len(m.consoleLines)
    IN  IF numLines > maxVisibleLines
        THEN [m EXCEPT !.consoleScrollPos =
                           Clamp(m.consoleScrollPos - linesToScroll, 0, numLines - maxVisibleLines)]
        ELSE m

----------------------------------------------------------------------------
(* Scrollback *)

\* std::string::find('\n', offset), 1-based; 0 stands for npos
Find(input, offset) ==
    LET hits == {i \in offset..Len(input) : input[i] = NL}
    IN  IF hits = {} THEN 0 ELSE CHOOSE i \in hits : \A j \in hits : i <= j

\* the segments the loop of WriteLine cuts from input, starting at stringOffset
RECURSIVE SplitFrom(_, _)
SplitFrom(input, stringOffset) ==
    LET splitPos == Find(input, stringOffset)
    IN  IF splitPos = 0
        THEN << SubSeq(input, stringOffset, Len(input)) >>
        ELSE << SubSeq(input, stringOffset, splitPos - 1) >> \o SplitFrom(input, splitPos + 1)

ColourCodepoint(colourFormat) ==
    IF colourFormat # "ColourWindow2" THEN ColourCodepointWindow2 ELSE << >>

\* a bug EraseFront could have: the newest lines are dropped, not the oldest
EraseFront_DropsNewest(lines) ==
    IF Len(lines) > CONSOLE_MAX_LINES
    THEN SubSeq(lines, 1, CONSOLE_MAX_LINES)
    ELSE lines

EraseFront(lines) ==
    IF Len(lines) > CONSOLE_MAX_LINES
    THEN LET linesToErase == Len(lines) - CONSOLE_MAX_LINES
         IN  SubSeq(lines, linesToErase + 1, Len(lines))
    ELSE lines

WriteLine(m, input, colourFormat) ==
    LET segments == SplitFrom(input, 1)
        emplaced == m.consoleLines \o
                        [i \in 1..Len(segments) |-> ColourCodepoint(colourFormat) \o segments[i]]
    IN  [m EXCEPT !.consoleLines = EraseFront(emplaced)]

WritePrompt(m) == WriteLine(m, Prompt, "ColourWindow2")

Clear(m) == ScrollToEnd([m EXCEPT !.consoleLines = << >>])

----------------------------------------------------------------------------
(* Edit line, caret and history *)

RefreshCaret(m, position) ==
    LET tempString == SubSeq(m.consoleCurrentLine, 1, Min(position, Len(m.consoleCurrentLine)))
    IN  [m EXCEPT !.consoleCaretTicks = 0,
                  !.selectionStart = position,
                  !.caretScreenPosX = GfxGetStringWidthNoFormatting(tempString)]

\* a bug ClearInput could have: capture is restarted whether or not the console is open
ClearInput_AlwaysStarts(m) ==
    ContextStartTextInput([m EXCEPT !.consoleCurrentLine = << >>])

ClearInput(m) ==
    LET m1 == [m EXCEPT !.consoleCurrentLine = << >>]
    IN  IF m1.isOpen THEN ContextStartTextInput(m1) ELSE m1

ClearLine(m) == RefreshCaret([m EXCEPT !.consoleCurrentLine = << >>], 0)

\* a bug HistoryAdd could have: a full ring is not shifted, the newest entry is overwritten
HistoryAdd_NoShift(m, src) ==
    LET full == m.consoleHistoryCount >= CONSOLE_HISTORY_SIZE
        count == IF full THEN m.consoleHistoryCount - 1 ELSE m.consoleHistoryCount
    IN  [m EXCEPT !.consoleHistory = [m.consoleHistory EXCEPT ![count] = src],
                  !.consoleHistoryCount = count + 1,
                  !.consoleHistoryIndex = count + 1]

HistoryAdd(m, src) ==
    LET full == m.consoleHistoryCount >= CONSOLE_HISTORY_SIZE
        shifted == IF full
                   THEN [i \in DOMAIN m.consoleHistory |->
                            IF i < m.consoleHistoryCount - 1
                            THEN m.consoleHistory[i + 1]
                            ELSE m.consoleHistory[i]]
                   ELSE m.consoleHistory
        count == IF full THEN m.consoleHistoryCount - 1 ELSE m.consoleHistoryCount
    IN  [m EXCEPT !.consoleHistory = [shifted EXCEPT ![count] = src],
                  !.consoleHistoryCount = count + 1,
                  !.consoleHistoryIndex = count + 1]

----------------------------------------------------------------------------
(* Lifecycle *)

Open(m) ==
    LET m1 == RefreshCaret(ScrollToEnd([m EXCEPT !.isOpen = TRUE]), 0)
    IN  [ContextStartTextInput(m1) EXCEPT !.consoleTextInputSession = TRUE]

Close(m) ==
    ContextStopTextInput([m EXCEPT !.consoleTextInputSession = FALSE, !.isOpen = FALSE])

Hide(m) == Close(m)

Toggle(m) == IF m.isOpen THEN Close(m) ELSE Open(m)

Update(m) ==
    [m EXCEPT !.consoleBottomRightY = ConsoleHeightPx,
              !.consoleCaretTicks = (m.consoleCaretTicks + 1) % CaretCycle]

\* Draw reads _consoleLines[i + _consoleScrollPos] for these indices (0-based)
DrawReadIndices(m) ==
    LET maxLines == GetNumVisibleLines(m)
        \* static_cast<size_t>(maxLines) of a negative count is larger than any size
        n == IF maxLines < 0 THEN Len(m.consoleLines) ELSE Min(Len(m.consoleLines), maxLines)
    IN  {i + m.consoleScrollPos : i \in 0..(n - 1)}

\* what an out-of-bounds access can do: go unnoticed, or end the process
UBOutcomes == {"continue", "crash"}

\* a bug Draw could have: the blink phase is advanced by the draw
Draw_AdvancesBlink(m, ub) ==
    IF ~m.isOpen
    THEN m
    ELSE [m EXCEPT !.consoleCaretTicks = (@ + 1) % CaretCycle]

\* Draw changes no member; reading past the end of _consoleLines is undefined
Draw(m, ub) ==
    IF ~m.isOpen
    THEN m
    ELSE IF (\E index \in DrawReadIndices(m) : index >= Len(m.consoleLines)) /\ ub = "crash"
         THEN [m EXCEPT !.halted = TRUE]
         ELSE m

----------------------------------------------------------------------------
(* The command interpreter, InteractiveConsole::Execute *)

ExecEffects == {"none", "write", "clear", "hide"}
ExecOutput == << "o" >>

\* the command is run; what it does to the console is one of ExecEffects.  The call is
\* recorded with the console as the executor finds it
Execute(m, cmd, eff) ==
    LET m1 == [m EXCEPT !.execCalls =
                            Append(@, [cmd |-> cmd,
                                       consoleLines |-> m.consoleLines,
                                       consoleCurrentLine |-> m.consoleCurrentLine,
                                       consoleHistory |-> m.consoleHistory,
                                       consoleHistoryCount |-> m.consoleHistoryCount])]
    IN  CASE eff = "write" -> WriteLine(m1, ExecOutput, "ColourWindow2")
          [] eff = "clear" -> Clear(m1)
          [] eff = "hide" -> Hide(m1)
          [] OTHER -> m1

----------------------------------------------------------------------------
(* Input *)

ConsoleInputs == {"None", "LineClear", "LineExecute", "HistoryPrevious", "HistoryNext",
                  "ScrollPrevious", "ScrollNext"}

\* the three assignments through _consoleTextInputSession; a null session ends the process
SyncSession(m) ==
    IF ~m.consoleTextInputSession
    THEN [m EXCEPT !.halted = TRUE]
    ELSE [m EXCEPT !.session = [Size |-> Len(m.consoleCurrentLine),
                                Length |-> Len(m.consoleCurrentLine),
                                SelectionStart |-> Len(m.consoleCurrentLine)]]

InputLineClear(m) == RefreshCaret(ClearInput(m), 0)

\* a bug LineExecute could have: the empty line is executed like any other
InputLineExecute_NoEmptyCheck(m, eff, ub) ==
    LET cmd == m.consoleCurrentLine
        m1 == HistoryAdd(m, cmd)
        n == Len(m1.consoleLines)
    IN  IF n = 0 /\ ub = "crash"
        THEN [m1 EXCEPT !.halted = TRUE]
        ELSE LET m2 == IF n = 0 THEN m1
                       ELSE [m1 EXCEPT !.consoleLines[n] = @ \o cmd]
                 m3 == Execute(m2, cmd, eff)
                 m4 == WritePrompt(m3)
                 m5 == ClearInput(m4)
                 m6 == RefreshCaret(m5, 0)
             IN  ScrollToEnd(m6)

\* a bug LineExecute could have: the view is scrolled to the end before the prompt is
\* written
InputLineExecute_ScrollsBeforePrompt(m, eff, ub) ==
    IF m.consoleCurrentLine # << >>
    THEN LET cmd == m.consoleCurrentLine
             m1 == HistoryAdd(m, cmd)
             n == Len(m1.consoleLines)
         IN  IF n = 0 /\ ub = "crash"
             THEN [m1 EXCEPT !.halted = TRUE]
             ELSE LET m2 == IF n = 0 THEN m1
                            ELSE [m1 EXCEPT !.consoleLines[n] = @ \o cmd]
                      m3 == Execute(m2, cmd, eff)
                      m4 == ScrollToEnd(m3)
                      m5 == WritePrompt(m4)
                      m6 == ClearInput(m5)
                  IN  RefreshCaret(m6, 0)
    ELSE ScrollToEnd(m)

InputLineExecute(m, eff, ub) ==
    IF m.consoleCurrentLine # << >>
    THEN LET cmd == m.consoleCurrentLine
             m1 == HistoryAdd(m, cmd)
             n == Len(m1.consoleLines)
         IN  IF n = 0 /\ ub = "crash"
             THEN [m1 EXCEPT !.halted = TRUE]
             ELSE LET \* back() of an empty vector is outside the vector: no line changes
                      m2 == IF n = 0 THEN m1
                            ELSE [m1 EXCEPT !.consoleLines[n] = @ \o cmd]
                      m3 == Execute(m2, cmd, eff)
                      m4 == WritePrompt(m3)
                      m5 == ClearInput(m4)
                      m6 == RefreshCaret(m5, 0)
                  IN  ScrollToEnd(m6)
    ELSE ScrollToEnd(m)

\* a bug HistoryPrevious could have: the cursor is stepped back from 0 as well
InputHistoryPrevious_NoFloor(m) ==
    LET index == m.consoleHistoryIndex - 1
        m1 == [m EXCEPT !.consoleHistoryIndex = index,
                        !.consoleCurrentLine = IF index \in DOMAIN m.consoleHistory
                                               THEN m.consoleHistory[index]
                                               ELSE << >>]
    IN  SyncSession(m1)

InputHistoryPrevious(m) ==
    LET m1 == IF m.consoleHistoryIndex > 0
              THEN [m EXCEPT !.consoleHistoryIndex = @ - 1,
                             !.consoleCurrentLine = m.consoleHistory[m.consoleHistoryIndex - 1]]
              ELSE m
    IN  SyncSession(m1)

\* a bug HistoryNext could have: past the newest entry the line is not cleared
InputHistoryNext_KeepsLine(m) ==
    IF m.consoleHistoryIndex < m.consoleHistoryCount - 1
    THEN SyncSession([m EXCEPT !.consoleHistoryIndex = @ + 1,
                               !.consoleCurrentLine = m.consoleHistory[m.consoleHistoryIndex + 1]])
    ELSE [m EXCEPT !.consoleHistoryIndex = m.consoleHistoryCount]

\* a bug HistoryNext could have: the newest entry is a stop, as the oldest is for
\* HistoryPrevious
InputHistoryNext_StaysOnNewest(m) ==
    IF m.consoleHistoryIndex < m.consoleHistoryCount - 1
    THEN SyncSession([m EXCEPT !.consoleHistoryIndex = @ + 1,
                               !.consoleCurrentLine = m.consoleHistory[m.consoleHistoryIndex + 1]])
    ELSE SyncSession(m)

InputHistoryNext(m) ==
    IF m.consoleHistoryIndex < m.consoleHistoryCount - 1
    THEN SyncSession([m EXCEPT !.consoleHistoryIndex = @ + 1,
                               !.consoleCurrentLine = m.consoleHistory[m.consoleHistoryIndex + 1]])
    ELSE ClearInput([m EXCEPT !.consoleHistoryIndex = m.consoleHistoryCount])

InputScrollPrevious(m) == Scroll(m, GetNumVisibleLines(m) - 1)

InputScrollNext(m) == Scroll(m, -(GetNumVisibleLines(m) - 1))

Input(m, input, eff, ub) ==
    CASE input = "LineClear" -> InputLineClear(m)
      [] input = "LineExecute" -> InputLineExecute(m, eff, ub)
      [] input = "HistoryPrevious" -> InputHistoryPrevious(m)
      [] input = "HistoryNext" -> InputHistoryNext(m)
      [] input = "ScrollPrevious" -> InputScrollPrevious(m)
      [] input = "ScrollNext" -> InputScrollNext(m)
      [] OTHER -> m

----------------------------------------------------------------------------
(* Text typed into the capture session (TextComposition) *)

\* a character is inserted at the session's caret, then the console's caret is refreshed
TextInput(m, ch) ==
    LET sel == m.session.SelectionStart
        line == SubSeq(m.consoleCurrentLine, 1, sel) \o << ch >>
                    \o SubSeq(m.consoleCurrentLine, sel + 1, Len(m.consoleCurrentLine))
        m1 == [m EXCEPT !.consoleCurrentLine = line,
                        !.session = [Size |-> Len(line), Length |-> Len(line),
                                     SelectionStart |-> sel + 1]]
    IN  RefreshCaret(m1, m1.session.SelectionStart)

----------------------------------------------------------------------------
(* The state after construction *)

GreetingName == << "N", " ", "V" >>
GreetingHelp == << "h" >>

\* the scrollback the constructor leaves, as a machine record of lines only
Constructed ==
    LET m0 == [consoleLines |-> << >>]
        m1 == WriteLine(m0, GreetingName, "ColourWindow2")
        m2 == WriteLine(m1, GreetingHelp, "ColourWindow2")
        m3 == WriteLine(m2, << >>, "ColourWindow2")
    IN  WritePrompt(m3)

InitWith(lineHeights) ==
    /\ isOpen = FALSE
    /\ consoleBottomRightY = 0
    /\ lineHeight \in lineHeights
    /\ consoleLines = Constructed.consoleLines
    /\ consoleCurrentLine = << >>
    /\ consoleCaretTicks = 0
    /\ consoleScrollPos = 0
    /\ consoleTextInputSession = FALSE
    /\ consoleHistory = [i \in 0..(CONSOLE_HISTORY_SIZE - 1) |-> << >>]
    /\ consoleHistoryIndex = 0
    /\ consoleHistoryCount = 0
    /\ selectionStart = 0
    /\ caretScreenPosX = 0
    /\ session = [Size |-> 0, Length |-> 0, SelectionStart |-> 0]
    /\ captureActive = FALSE
    /\ halted = FALSE

\* line heights of the two console fonts (small, medium): one under which all of the
\* scrollback is visible, one so large that few lines are
LineHeights == {10, 64}

Init == InitWith(LineHeights)

----------------------------------------------------------------------------
(* Actions: one call of a public method, or one event of a collaborator *)

OpenAct == ~halted /\ Commit(Open(Cur))

CloseAct == ~halted /\ Commit(Close(Cur))

HideAct == ~halted /\ Commit(Hide(Cur))

ToggleAct == ~halted /\ Commit(Toggle(Cur))

UpdateAct == ~halted /\ Commit(Update(Cur))

DrawAct == ~halted /\ \E ub \in UBOutcomes : Commit(Draw(Cur, ub))

ClearAct == ~halted /\ Commit(Clear(Cur))

ClearLineAct == ~halted /\ Commit(ClearLine(Cur))

WriteLineAct(texts, colours) ==
    /\ ~halted
    /\ \E input \in texts, colourFormat \in colours :
           Commit(WriteLine(Cur, input, colourFormat))

\* Input has no test of _isOpen: an event is handled by a closed console as well
InputAct(inputs, effects) ==
    /\ ~halted
    /\ \E input \in inputs :
           IF input = "LineExecute"
           THEN \E eff \in effects, ub \in UBOutcomes : Commit(Input(Cur, input, eff, ub))
           ELSE Commit(Input(Cur, input, "none", "continue"))

\* the console font is changed in the configuration (ConsoleSmallFont): from now on
\* InGameConsoleGetLineHeight() returns another height; no member of the console changes
FontChangeAct(lineHeights) ==
    /\ ~halted
    /\ \E lh \in lineHeights \ {lineHeight} : lineHeight' = lh
    /\ UNCHANGED << isOpen, consoleBottomRightY, consoleLines, consoleCurrentLine,
                    consoleCaretTicks, consoleScrollPos, consoleTextInputSession,
                    consoleHistory, consoleHistoryIndex, consoleHistoryCount,
                    selectionStart, caretScreenPosX, session, captureActive, halted >>

\* typing reaches the buffer while capture is on and the session is in step with it
CanType ==
    /\ ~halted
    /\ captureActive
    /\ session.Size = Len(consoleCurrentLine)

\* the user types one character of a line of typable
TextInputAct(typable) ==
    /\ CanType
    /\ \E ch \in Chars :
           /\ TextInput(Cur, ch).consoleCurrentLine \in typable
           /\ Commit(TextInput(Cur, ch))

(* The console under every call, with one line to type and one text to write *)

MainTyped == { << "a" >> }
MainTexts == { << "x" >> }

Next ==
    \/ OpenAct
    \/ CloseAct
    \/ HideAct
    \/ ToggleAct
    \/ UpdateAct
    \/ DrawAct
    \/ ClearAct
    \/ ClearLineAct
    \/ WriteLineAct(MainTexts, {"ColourWindow2"})
    \/ InputAct(ConsoleInputs, ExecEffects)
    \/ TextInputAct(MainTyped)
    \/ FontChangeAct(LineHeights)

Spec == Init /\ [][Next]_vars

(* The console driven by the user and the frame loop alone: every call of Next but the
   lines other parts of the game write; what the executor writes is still written *)

NextInteractive ==
    \/ OpenAct
    \/ CloseAct
    \/ HideAct
    \/ ToggleAct
    \/ UpdateAct
    \/ DrawAct
    \/ ClearAct
    \/ ClearLineAct
    \/ InputAct(ConsoleInputs, ExecEffects)
    \/ TextInputAct(MainTyped)
    \/ FontChangeAct(LineHeights)

SpecInteractive == Init /\ [][NextInteractive]_vars

(* The edit line and the history ring, with several commands to type *)

HistTyped == { << "a" >>, << "b" >>, << "a", "b" >> }

NextHistory ==
    \/ OpenAct
    \/ CloseAct
    \/ InputAct(ConsoleInputs \ {"ScrollPrevious", "ScrollNext"}, {"none"})
    \/ TextInputAct(HistTyped)

SpecHistory == Init /\ [][NextHistory]_vars

(* The scrollback under writes of every text of up to MaxWriteLen characters *)

RECURSIVE TextsOfLen(_)
TextsOfLen(n) ==
    IF n = 0 THEN { << >> }
    ELSE {Append(t, c) : t \in TextsOfLen(n - 1), c \in {"a", NL}}

WriteTexts == UNION {TextsOfLen(n) : n \in 0..MaxWriteLen}

NextWrite ==
    \/ WriteLineAct(WriteTexts, FormatTokens)
    \/ ClearAct

SpecWrite == Init /\ [][NextWrite]_vars

(* The viewport under the line heights a font can have *)

GeomLineHeights == {1, 6, 10, 64, 106, 157, 159, 160, 200, 317, 318, 400}

InitGeom == InitWith(GeomLineHeights)

NextGeom ==
    \/ UpdateAct
    \/ OpenAct
    \/ CloseAct
    \/ DrawAct
    \/ InputAct({"ScrollPrevious", "ScrollNext"}, {"none"})
    \/ FontChangeAct(GeomLineHeights)

SpecGeom == InitGeom /\ [][NextGeom]_vars

----------------------------------------------------------------------------
(* Claims *)

MaxScroll(m) == Max(0, Len(m.consoleLines) - GetNumVisibleLines(m))

\* C1: in every reachable state 0 <= scrollOffset <= max(0, totalLines - visibleLineCount())
C1_ScrollOffsetClamped ==
    /\ 0 <= consoleScrollPos
    /\ consoleScrollPos <= MaxScroll(Cur)

----------------------------------------------------------------------------
\* the lines a write adds before the front is erased
Emplaced(input, colourFormat) ==
    LET segments == SplitFrom(input, 1)
    IN  [i \in 1..Len(segments) |-> ColourCodepoint(colourFormat) \o segments[i]]

\* C2: after every WriteLine the scrollback holds at most CONSOLE_MAX_LINES lines, and
\* they are the most recently appended lines in their order (only the front is erased)
C2_RetainsMostRecent ==
    /\ Len(consoleLines) <= CONSOLE_MAX_LINES
    /\ \A input \in WriteTexts, colourFormat \in FormatTokens :
           LET m == WriteLine(Cur, input, colourFormat)
               all == consoleLines \o Emplaced(input, colourFormat)
               kept == Len(m.consoleLines)
           IN  /\ kept = Min(CONSOLE_MAX_LINES, Len(all))
               /\ \A i \in 1..kept : m.consoleLines[i] = all[Len(all) - kept + i]

\* the scrollback is full, the constructor's lines are gone, and the oldest line kept
\* differs from the newest
C2_Witness ==
    /\ Len(consoleLines) = CONSOLE_MAX_LINES
    /\ \A i \in 1..Len(consoleLines) : consoleLines[i] \notin {Prompt, GreetingName, GreetingHelp}
    /\ consoleLines[1] = ColourCodepointWindow2 \o << "a" >>
    /\ consoleLines[Len(consoleLines)] = << >>

----------------------------------------------------------------------------
\* the commands of the ring, oldest first
Ring(m) == [i \in 1..m.consoleHistoryCount |-> m.consoleHistory[i - 1]]

\* C3: a LineExecute of a command leaves the ring holding the min(N, adds) most recently
\* added commands in insertion order (a full ring loses only its oldest entry), and the
\* recall cursor equal to the ring length
C3_HistoryKeepsMostRecent ==
    (~halted /\ consoleCurrentLine # << >>) =>
        \A eff \in ExecEffects, ub \in UBOutcomes :
            LET m == Input(Cur, "LineExecute", eff, ub)
                all == Append(Ring(Cur), consoleCurrentLine)
                n == Min(CONSOLE_HISTORY_SIZE, Len(all))
            IN  m.halted \/
                    /\ m.consoleHistoryCount = n
                    /\ Ring(m) = SubSeq(all, Len(all) - n + 1, Len(all))
                    /\ m.consoleHistoryIndex = m.consoleHistoryCount

\* a full ring of distinct commands, and a further command typed that is about to evict
\* the oldest
C3_Witness ==
    /\ isOpen
    /\ consoleHistoryCount = CONSOLE_HISTORY_SIZE
    /\ consoleHistory[0] # consoleHistory[1]
    /\ consoleCurrentLine # << >>
    /\ consoleCurrentLine # consoleHistory[0]
    /\ Ring(Input(Cur, "LineExecute", "none", "continue"))[1] = consoleHistory[1]

----------------------------------------------------------------------------
\* the fresh line: the recall cursor is past the newest command and nothing is typed
Fresh(m) == m.consoleHistoryIndex = m.consoleHistoryCount /\ m.consoleCurrentLine = << >>

RECURSIVE Presses(_, _, _)
\* the console after n presses of the key input
Presses(m, input, n) ==
    IF n = 0 THEN m ELSE Presses(Input(m, input, "none", "continue"), input, n - 1)

\* C4: from the fresh line, k presses of "previous" then k presses of "next"
\* (k <= history length) end on the fresh line with an empty edit buffer and the ring
\* as it was.  The console is open: closed, it has no capture session and a recall
\* ends the process
C4_RecallRoundTrip ==
    (isOpen /\ ~halted /\ Fresh(Cur)) =>
        \A k \in 0..consoleHistoryCount :
            LET m == Presses(Presses(Cur, "HistoryPrevious", k), "HistoryNext", k)
            IN  /\ m.consoleHistoryIndex = m.consoleHistoryCount
                /\ m.consoleCurrentLine = << >>
                /\ m.consoleHistory = consoleHistory
                /\ m.consoleHistoryCount = consoleHistoryCount

\* the fresh line over a full ring of distinct commands, from which the walk of
\* CONSOLE_HISTORY_SIZE presses reaches the oldest command
C4_Witness ==
    /\ isOpen
    /\ Fresh(Cur)
    /\ consoleHistoryCount = CONSOLE_HISTORY_SIZE
    /\ consoleHistory[0] # consoleHistory[1]
    /\ Presses(Cur, "HistoryPrevious", consoleHistoryCount).consoleCurrentLine = consoleHistory[0]

----------------------------------------------------------------------------
\* C5: a LineExecute with an empty edit buffer adds nothing to the history ring, does
\* not call the executor, and leaves the scrollback lines as they were
C5_EmptyExecuteIsInert ==
    (~halted /\ consoleCurrentLine = << >>) =>
        \A eff \in ExecEffects, ub \in UBOutcomes :
            LET m == Input(Cur, "LineExecute", eff, ub)
            IN  /\ m.consoleHistory = consoleHistory
                /\ m.consoleHistoryCount = consoleHistoryCount
                /\ m.execCalls = << >>
                /\ m.consoleLines = consoleLines

\* an open console with an empty edit buffer, a command in the history, and a view
\* scrolled away from the end, so that the event does move the view
C5_Witness ==
    /\ isOpen
    /\ consoleCurrentLine = << >>
    /\ consoleHistoryCount > 0
    /\ Len(consoleLines) = CONSOLE_MAX_LINES
    /\ Input(Cur, "LineExecute", "write", "continue").consoleScrollPos # consoleScrollPos

----------------------------------------------------------------------------
\* the tag of a colour, FormatTokenToStringWithBraces
FormatTokenTag(colourFormat) ==
    IF colourFormat = "ColourRed" THEN << "{RED}" >> ELSE << "{WINDOW_COLOUR_2}" >>

\* the j-th newline of input from the left; 0 before the first, Len + 1 after the last
NewlineNo(input, j) ==
    LET nl == {i \in 1..Len(input) : input[i] = NL}
    IN  IF j = 0 THEN 0
        ELSE IF j > Cardinality(nl) THEN Len(input) + 1
        ELSE CHOOSE p \in nl : Cardinality({q \in nl : q <= p}) = j

\* the newline-delimited segments of input: k newlines give k + 1 segments
SegmentsOf(input) ==
    LET k == Cardinality({i \in 1..Len(input) : input[i] = NL})
    IN  [j \in 1..(k + 1) |->
            SubSeq(input, NewlineNo(input, j - 1) + 1, NewlineNo(input, j) - 1)]

\* the lines the claim expects WriteLine to append
TaggedSegments(input, colourFormat) ==
    LET tag == IF colourFormat = "ColourWindow2" THEN << >> ELSE FormatTokenTag(colourFormat)
    IN  [j \in 1..Len(SegmentsOf(input)) |-> tag \o SegmentsOf(input)[j]]

\* C6: WriteLine(text, colour) appends, before the front is erased, one line per
\* newline-delimited segment of text, in order: the segment itself for the default
\* colour, the tag of the supplied colour followed by the segment otherwise
C6_AppendsTaggedSegments ==
    \A input \in WriteTexts, colourFormat \in FormatTokens :
        WriteLine(Cur, input, colourFormat).consoleLines
            = EraseFront(consoleLines \o TaggedSegments(input, colourFormat))

----------------------------------------------------------------------------
\* C7: GetNumVisibleLines() is max(0, floor((consoleHeight - 2*lineHeight - 4) / lineHeight)),
\* and 0 when consoleHeight is 0; it is never negative
C7_VisibleLinesClamped ==
    GetNumVisibleLines(Cur) =
        IF consoleBottomRightY = 0
        THEN 0
        ELSE Max(0, (consoleBottomRightY - 2 * lineHeight - 4) \div lineHeight)

----------------------------------------------------------------------------
\* every input event, by name, with the console it leaves (open or closed: Input does
\* not test _isOpen); the executor's effect and the outcome of undefined behaviour matter
\* to LineExecute only
InputCalls ==
    {[name |-> input, res |-> Input(Cur, input, "none", "continue")] :
         input \in ConsoleInputs \ {"LineExecute"}}
        \cup {[name |-> "LineExecute", res |-> Input(Cur, "LineExecute", eff, ub)] :
                  eff \in ExecEffects, ub \in UBOutcomes}

\* the console after each lifecycle call and each input event possible in this state
CaptureCallResults ==
    {Open(Cur), Close(Cur), Hide(Cur), Toggle(Cur)}
        \cup {c.res : c \in InputCalls}

RECURSIVE Alternates(_, _)
\* capture is started only while off and stopped only while on, call after call
Alternates(active, calls) ==
    IF calls = << >>
    THEN TRUE
    ELSE /\ Head(calls) = "start" => ~active
         /\ Head(calls) = "stop" => active
         /\ Alternates(Head(calls) = "start", Tail(calls))

\* C8 as stated: starts and stops of text-input capture strictly alternate, and a
\* session is active exactly while the console is open
C8_CaptureAlternates ==
    /\ captureActive <=> isOpen
    /\ \A m \in CaptureCallResults : Alternates(captureActive, m.captureCalls)

\* C8, amended: a session is active exactly while the console is open, before and after
\* every call; Open always starts capture and Close and Hide always stop it; any other
\* start (ClearInput) is made while the console is open and leaves it open
C8_CaptureFollowsOpen ==
    /\ captureActive <=> isOpen
    /\ Open(Cur).captureCalls = << "start" >>
    /\ Close(Cur).captureCalls = << "stop" >>
    /\ Hide(Cur).captureCalls = << "stop" >>
    /\ \A m \in CaptureCallResults :
           /\ m.captureActive <=> m.isOpen
           /\ \A i \in 1..Len(m.captureCalls) :
                  /\ m.captureCalls[i] = "start" => (i = Len(m.captureCalls) /\ m.isOpen)
                  /\ m.captureCalls[i] = "stop" => ~m.isOpen

\* the console is open after a command was executed, its capture restarted by ClearInput
\* without a stop, and a LineClear would restart it again
C8_Witness ==
    /\ isOpen
    /\ captureActive
    /\ consoleHistoryCount > 0
    /\ consoleCurrentLine = << >>
    /\ Input(Cur, "LineClear", "none", "continue").captureCalls = << "start" >>

----------------------------------------------------------------------------
\* every call possible in this state, by name, with the console it leaves
Calls ==
    {[name |-> "Open", res |-> Open(Cur)], [name |-> "Close", res |-> Close(Cur)],
     [name |-> "Hide", res |-> Hide(Cur)], [name |-> "Toggle", res |-> Toggle(Cur)],
     [name |-> "Update", res |-> Update(Cur)], [name |-> "Clear", res |-> Clear(Cur)],
     [name |-> "ClearLine", res |-> ClearLine(Cur)]}
        \cup {[name |-> "Draw", res |-> Draw(Cur, ub)] : ub \in UBOutcomes}
        \cup {[name |-> "WriteLine", res |-> WriteLine(Cur, input, colourFormat)] :
                  input \in MainTexts, colourFormat \in FormatTokens}
        \cup InputCalls
        \cup (IF CanType
              THEN {[name |-> "TextInput", res |-> TextInput(Cur, ch)] : ch \in Chars}
              ELSE {})

\* the state of the console: every member, and the capture session it points to
ConsoleState(m) ==
    << m.isOpen, m.consoleBottomRightY, m.consoleLines, m.consoleCurrentLine,
       m.consoleCaretTicks, m.consoleScrollPos, m.consoleTextInputSession,
       m.consoleHistory, m.consoleHistoryIndex, m.consoleHistoryCount,
       m.selectionStart, m.caretScreenPosX, m.session, m.captureActive >>

\* C9 as stated: Draw changes no state; the blink tick counter changes only in Update,
\* by 1 modulo the cycle length, and lies in [0, cycle length)
C9_TicksChangeOnlyInUpdate ==
    /\ consoleCaretTicks \in 0..(CaretCycle - 1)
    /\ \A c \in Calls :
           /\ c.name = "Draw" => ConsoleState(c.res) = ConsoleState(Cur)
           /\ c.name = "Update" =>
                  c.res.consoleCaretTicks = (consoleCaretTicks + 1) % CaretCycle
           /\ c.name # "Update" => c.res.consoleCaretTicks = consoleCaretTicks

\* the calls that run RefreshCaret
RefreshingCalls == {"Open", "Toggle", "ClearLine", "LineClear", "LineExecute", "TextInput"}

\* C9, amended: Draw changes no state; Update advances the blink tick counter by 1
\* modulo the cycle length; any other call leaves the counter alone or, when it runs
\* RefreshCaret, resets it to 0; the counter lies in [0, cycle length)
C9_TicksChangeInUpdateOrReset ==
    /\ consoleCaretTicks \in 0..(CaretCycle - 1)
    /\ \A c \in Calls :
           /\ c.name = "Draw" => ConsoleState(c.res) = ConsoleState(Cur)
           /\ c.name = "Update" =>
                  c.res.consoleCaretTicks = (consoleCaretTicks + 1) % CaretCycle
           /\ (c.name # "Update" /\ c.res.consoleCaretTicks # consoleCaretTicks) =>
                  (c.res.consoleCaretTicks = 0 /\ c.name \in RefreshingCalls)

\* an open console that Draw paints, on the last tick of the blink cycle, with a
\* command typed: the next Update wraps the counter to 0
C9_Witness ==
    /\ isOpen
    /\ consoleBottomRightY = ConsoleHeightPx
    /\ consoleCaretTicks = CaretCycle - 1
    /\ consoleCurrentLine # << >>
    /\ Update(Cur).consoleCaretTicks = 0

----------------------------------------------------------------------------
\* C10: in every reachable state the caret offset is at most the byte length of the
\* edit buffer
C10_CaretWithinLine == selectionStart <= Len(consoleCurrentLine)

----------------------------------------------------------------------------
\* the history slots a recall event reads: InGameConsole::Input, memcpy from _consoleHistory
HistoryReadIndices(m, input) ==
    CASE input = "HistoryPrevious" ->
             IF m.consoleHistoryIndex > 0 THEN {m.consoleHistoryIndex - 1} ELSE {}
      [] input = "HistoryNext" ->
             IF m.consoleHistoryIndex < m.consoleHistoryCount - 1
             THEN {m.consoleHistoryIndex + 1}
             ELSE {}
      [] OTHER -> {}

\* C11: 0 <= historyIndex <= historyCount <= CONSOLE_HISTORY_SIZE in every reachable state;
\* HistoryPrevious with the cursor at 0 leaves the cursor and the edit buffer as they
\* were (on an open console: closed, it has no capture session and the event ends the
\* process); every history slot a recall reads is at an index below historyCount
C11_RecallCursorInRange ==
    /\ 0 <= consoleHistoryIndex
    /\ consoleHistoryIndex <= consoleHistoryCount
    /\ consoleHistoryCount <= CONSOLE_HISTORY_SIZE
    /\ (isOpen /\ ~halted /\ consoleHistoryIndex = 0) =>
           LET m == Input(Cur, "HistoryPrevious", "none", "continue")
           IN  /\ m.consoleHistoryIndex = 0
               /\ m.consoleCurrentLine = consoleCurrentLine
    /\ \A input \in {"HistoryPrevious", "HistoryNext"} :
           \A i \in HistoryReadIndices(Cur, input) : 0 <= i /\ i < consoleHistoryCount

\* the cursor is on the oldest entry of a full ring, recalled into the buffer, and a
\* further HistoryPrevious is possible
C11_Witness ==
    /\ isOpen
    /\ consoleHistoryCount = CONSOLE_HISTORY_SIZE
    /\ consoleHistoryIndex = 0
    /\ consoleCurrentLine = consoleHistory[0]
    /\ consoleCurrentLine # << >>
    /\ consoleHistory[0] # consoleHistory[1]

----------------------------------------------------------------------------
\* C12: a LineExecute with an empty edit buffer leaves the scroll offset, the caret
\* offset and the blink tick counter as they were, wherever the view was scrolled to
C12_EmptyExecuteKeepsView ==
    (isOpen /\ ~halted /\ consoleCurrentLine = << >>) =>
        \A eff \in ExecEffects, ub \in UBOutcomes :
            LET m == Input(Cur, "LineExecute", eff, ub)
            IN  /\ m.consoleScrollPos = consoleScrollPos
                /\ m.selectionStart = selectionStart
                /\ m.consoleCaretTicks = consoleCaretTicks

----------------------------------------------------------------------------
\* the last line of a scrollback
Back(lines) == lines[Len(lines)]

\* the scrollback with the command appended to its last line
Echoed(lines, c) == [lines EXCEPT ![Len(lines)] = @ \o c]

\* what the claim says of a LineExecute of the command c that ran the executor with
\* effect eff and left the console m: the executor was called once with c, after the
\* history add and the echo and before the prompt and the clearing of the buffer; the
\* line it wrote lies between the echo and the new prompt; at the end the last line is
\* the bare prompt, the buffer is empty, the caret offset is 0 and the newest history
\* entry is c
ExecutedInOrder(c, eff, m) ==
    /\ ~m.halted
    /\ Len(m.execCalls) = 1
    /\ LET call == m.execCalls[1]
       IN  /\ call.cmd = c
           /\ call.consoleHistoryCount > 0
           /\ call.consoleHistory[call.consoleHistoryCount - 1] = c
           /\ call.consoleLines = Echoed(consoleLines, c)
           /\ call.consoleCurrentLine = c
           /\ eff = "none" =>
                  m.consoleLines = EraseFront(call.consoleLines \o << Prompt >>)
           /\ eff = "write" =>
                  m.consoleLines = EraseFront(call.consoleLines \o << ExecOutput, Prompt >>)
    /\ m.consoleLines # << >>
    /\ Back(m.consoleLines) = Prompt
    /\ m.consoleCurrentLine = << >>
    /\ m.selectionStart = 0
    /\ m.consoleHistoryCount > 0
    /\ m.consoleHistory[m.consoleHistoryCount - 1] = c

\* C13: a LineExecute with non-empty content c adds c to the history ring, appends c to
\* the last scrollback line, invokes the executor once with c, appends a fresh prompt
\* and clears the edit buffer, in this order
C13_ExecuteStepsInOrder ==
    (isOpen /\ ~halted /\ consoleCurrentLine # << >>) =>
        /\ consoleLines # << >>
        /\ \A eff \in ExecEffects, ub \in UBOutcomes :
               ExecutedInOrder(consoleCurrentLine, eff, Input(Cur, "LineExecute", eff, ub))

----------------------------------------------------------------------------
\* the scrollback line of the newest prompt is one of the lines Draw draws
PromptInView(m) == (Len(m.consoleLines) - 1) \in DrawReadIndices(m)

\* C14 as stated: after a LineExecute with non-empty content completes, scrollOffset is
\* max(0, totalLines - visibleLineCount()), the new prompt counted in totalLines
C14_ScrollToEndAfterPrompt ==
    (~halted /\ consoleCurrentLine # << >>) =>
        \A eff \in ExecEffects, ub \in UBOutcomes :
            LET m == Input(Cur, "LineExecute", eff, ub)
            IN  ~m.halted =>
                    /\ m.consoleScrollPos = Max(0, Len(m.consoleLines) - GetNumVisibleLines(m))
                    /\ GetNumVisibleLines(m) >= 1 => PromptInView(m)

\* C14, amended: after a LineExecute with non-empty content completes, scrollOffset is 0
\* when visibleLineCount() is 0 and max(0, totalLines - visibleLineCount()) otherwise,
\* the new prompt counted in totalLines; whenever visibleLineCount() >= 1 the new prompt
\* line lies in the drawn range
C14_ScrollToEndUnlessUnsized ==
    (~halted /\ consoleCurrentLine # << >>) =>
        \A eff \in ExecEffects, ub \in UBOutcomes :
            LET m == Input(Cur, "LineExecute", eff, ub)
            IN  ~m.halted =>
                    /\ m.consoleScrollPos =
                           IF GetNumVisibleLines(m) = 0
                           THEN 0
                           ELSE Max(0, Len(m.consoleLines) - GetNumVisibleLines(m))
                    /\ GetNumVisibleLines(m) >= 1 => PromptInView(m)

\* a sized console showing all of a short scrollback, with a command typed whose
\* execution makes the scrollback longer than the view, so that the view has to move
C14_Witness ==
    /\ isOpen
    /\ ~halted
    /\ consoleBottomRightY = ConsoleHeightPx
    /\ consoleCurrentLine # << >>
    /\ consoleScrollPos = 0
    /\ Len(consoleLines) < CONSOLE_MAX_LINES
    /\ Input(Cur, "LineExecute", "write", "continue").consoleScrollPos > 0

----------------------------------------------------------------------------
\* C18: whenever a LineExecute with non-empty content is handled, the scrollback is
\* non-empty and its last line is the prompt line "> "
C18_ExecutesOnPrompt ==
    (isOpen /\ ~halted /\ consoleCurrentLine # << >>) =>
        /\ consoleLines # << >>
        /\ Back(consoleLines) = Prompt

----------------------------------------------------------------------------
\* C15: when HistoryPrevious or HistoryNext returns an entry e, the edit buffer is e
\* afterwards and the caret is at its end: the session's selection start, the console's
\* caret offset and the caret X derived from it are those of the byte length of e
C15_RecallPutsCaretAtEnd ==
    (isOpen /\ ~halted) =>
        \A input \in {"HistoryPrevious", "HistoryNext"} :
            \A i \in HistoryReadIndices(Cur, input) :
                LET e == consoleHistory[i]
                    m == Input(Cur, input, "none", "continue")
                IN  /\ m.consoleCurrentLine = e
                    /\ m.session.SelectionStart = Len(e)
                    /\ m.selectionStart = Len(e)
                    /\ m.caretScreenPosX = GfxGetStringWidthNoFormatting(e)

----------------------------------------------------------------------------
\* the calls of this state that move the caret or replace the edit content
CaretMovingCalls ==
    {c \in Calls :
        \/ c.name \in {"Open", "LineClear", "HistoryNext"}
        \/ c.name = "LineExecute" /\ consoleCurrentLine # << >>
        \/ c.name = "HistoryPrevious" /\ HistoryReadIndices(Cur, "HistoryPrevious") # {}}

\* C16: Open, LineClear, a non-empty LineExecute, a recall that returns an entry and
\* HistoryNext returning to the empty line leave the blink tick counter at 0
C16_CaretOpsResetBlink ==
    \A c \in CaretMovingCalls : ~c.res.halted => c.res.consoleCaretTicks = 0

----------------------------------------------------------------------------
\* C17: while the console is open every scrollback index Draw reads is below the
\* number of scrollback lines
C17_DrawReadsWithinScrollback ==
    isOpen => \A index \in DrawReadIndices(Cur) : index < Len(consoleLines)

----------------------------------------------------------------------------
\* C19: ScrollPrevious never increases the scroll offset and ScrollNext never
\* decreases it
C19_ScrollDirection ==
    (isOpen /\ ~halted) =>
        /\ Input(Cur, "ScrollPrevious", "none", "continue").consoleScrollPos <= consoleScrollPos
        /\ Input(Cur, "ScrollNext", "none", "continue").consoleScrollPos >= consoleScrollPos

----------------------------------------------------------------------------
\* C20: HistoryNext with the recall cursor at or after the newest entry
\* (historyIndex >= historyCount - 1) ends with the cursor at historyCount and an empty
\* edit buffer, whatever was typed, and leaves the history ring as it was
C20_NextPastNewestClears ==
    (~halted /\ consoleHistoryIndex >= consoleHistoryCount - 1) =>
        LET m == Input(Cur, "HistoryNext", "none", "continue")
        IN  /\ m.consoleHistoryIndex = m.consoleHistoryCount
            /\ m.consoleCurrentLine = << >>
            /\ m.consoleHistory = consoleHistory
            /\ m.consoleHistoryCount = consoleHistoryCount

\* a fresh line over a history of commands, with text typed that is none of them
C20_Witness ==
    /\ isOpen
    /\ consoleHistoryCount > 0
    /\ consoleHistoryIndex = consoleHistoryCount
    /\ consoleCurrentLine # << >>
    /\ \A i \in 0..(consoleHistoryCount - 1) : consoleHistory[i] # consoleCurrentLine
    /\ Input(Cur, "HistoryNext", "none", "continue").consoleCurrentLine = << >>

====
